---- MODULE Spec2Model ----
(***************************************************************************)
(* Model of the two OpenGL viewers of the repository:                      *)
(*   program 1  src/КГФ3/cgf3/cgf3/part1.cpp       (flat shading viewer)   *)
(*   program 2  src/КГФ3/cgf3part2/cgf3part2/part2.cpp (Gouraud / Phong)   *)
(* The state is main()'s locals, the file-scope globals the key handlers   *)
(* write, the window's close flag and the GPU objects.  Floats that the    *)
(* handlers step by 0.05f are kept as a number of steps; 32-bit unsigned   *)
(* values are kept as two 16-bit halves so that wrap-around is exact.      *)
(***************************************************************************)
EXTENDS Integers, Sequences, FiniteSets, TLC

\* ---------------------------------------------------------------- bounds
\* Longest file (in lines) the loader specification reads.
MaxLines == 2

\* Most events (key events and close requests) delivered in one run.
MaxEvents == 3

\* Most faces of a mesh the normal-processing specification starts from.
MaxFaces == 2

\* ------------------------------------------------- 32-bit unsigned values
\* One half of an unsigned int: 2^16 (the value itself is [hi, lo]).
UHalf == 256 * 256

U(n) == [hi |-> 0, lo |-> n]

UMax == [hi |-> UHalf - 1, lo |-> UHalf - 1]

\* a - b on unsigned int: modulo 2^32, with the borrow between the halves.
USub(a, b) ==
    LET borrow == IF a.lo < b.lo THEN 1 ELSE 0
    IN  [hi |-> (a.hi - b.hi - borrow) % UHalf, lo |-> (a.lo - b.lo) % UHalf]

\* The mathematical relation s = f - 1 on the integers the halves stand for.
IsOneLess(s, f) ==
    \/ f.lo > 0 /\ s.hi = f.hi /\ s.lo = f.lo - 1
    \/ f.lo = 0 /\ f.hi > 0 /\ s.hi = f.hi - 1 /\ s.lo = UHalf - 1

\* ------------------------------------------------------------ file lines
\* A line of the mesh file: empty (size 0) or not, the characters of its first
\* whitespace-delimited token (<<>> for a line of only whitespace), and the
\* numeric fields after it, as floats (v lines) or unsigned values (f lines).
Line(tag, floats, uints) ==
    [empty |-> FALSE, indent |-> FALSE, tag |-> tag, floats |-> floats, uints |-> uints]

EmptyLine == [empty |-> TRUE, indent |-> FALSE, tag |-> <<>>, floats |-> <<>>, uints |-> <<>>]

BlankLine == Line(<<>>, <<>>, <<>>)

Indented(l) == [l EXCEPT !.indent = TRUE]

LineSet ==
    { EmptyLine,
      BlankLine,
      Line(<<"v">>, <<0, 0, 0>>, <<>>),
      Indented(Line(<<"v">>, <<1, 0, 0>>, <<>>)),
      Line(<<"v">>, <<0, 1>>, <<>>),
      Line(<<"f">>, <<>>, <<U(1), U(2), U(3)>>),
      Line(<<"f">>, <<>>, <<U(0), [hi |-> 1, lo |-> 0], UMax>>),
      Line(<<"v", "n">>, <<0, 0, 1>>, <<>>),
      Line(<<"f", "a", "c", "e">>, <<>>, <<U(1), U(2), U(3)>>),
      Line(<<"#">>, <<>>, <<>>) }

\* Values an uninitialised float, unsigned int or char may hold.
GarbageFloat == {0, 9}

GarbageUInt == {U(0), U(7)}

GarbageChar == {"v", "f", "?"}

IsVLine(l) == ~l.empty /\ l.tag = <<"v">>

IsFLine(l) == ~l.empty /\ l.tag = <<"f">>

\* A non-empty line whose first token is neither v nor f.
IsOtherLine(l) == ~l.empty /\ l.tag # <<"v">> /\ l.tag # <<"f">>

VARIABLES
    prog,           \* which program runs: 1 (part1.cpp) or 2 (part2.cpp)
    argc,           \* main's argc
    canOpen,        \* whether the file named by argv[1] can be opened
    file,           \* the lines of that file
    pc,             \* where main (or the function it called) stands
    ret,            \* main's return value: <<>> while it runs, <<r>> once it returned r
    stderr,         \* what was written to std::cerr
    loadOk,         \* the loader's return value
    lineNo,         \* the next line std::getline reads
    ld_positions,   \* the loader's local vector of positions
    ld_faces,       \* the loader's local vector of faces
    positions,      \* main's positions
    faces,          \* main's faces
    fi,             \* index of the face the running loop of main is at
    faceNormals,    \* program 2: faceNormals
    vertexNormals,  \* program 2: vertexNormals
    counts,         \* program 2: counts
    vertices,       \* main's vertices (three per face)
    glfw,           \* the GLFW library: "off", "on" or "terminated"
    window,         \* the window: "none", "open" or "destroyed"
    keyCallback,    \* the key callback set on the window
    gpu,            \* per GPU object: how often it was created and deleted
    vboCount,       \* number of vertices glBufferData uploaded
    g,              \* the globals the key handler writes, and the close flag
    lastAction,     \* the action of the event the running glfwPollEvents delivered last
    nEvents,        \* events delivered so far
    iterDraws,      \* draw calls issued by the running loop iteration
    drawsAfterClose,\* draw calls issued with the close flag set
    frame           \* what the last frame set up and drew

inputVars == <<prog, argc, canOpen, file>>

loaderVars == <<loadOk, lineNo, ld_positions, ld_faces>>

meshVars == <<positions, faces>>

normalVars == <<fi, faceNormals, vertexNormals, counts>>

glVars == <<glfw, window, keyCallback, gpu, vboCount>>

loopVars == <<g, lastAction, nEvents, iterDraws, drawsAfterClose, frame>>

vars == <<inputVars, pc, ret, stderr, loaderVars, meshVars, normalVars, vertices,
          glVars, loopVars>>

\* ---------------------------------------------------------------- loader
\* iss >> type: the first non-whitespace character of the line; on a line of
\* only whitespace the extraction fails and type stays uninitialised.
TypeRead(l) == IF l.tag = <<>> THEN GarbageChar ELSE {Head(l.tag)}

\* The three values iss >> x >> y >> z leaves in x, y, z after type was read.
\* The stream has failed (blank line): nothing is written.  Characters of the
\* tag are left (vn, face): the first extraction fails to parse and stores
\* zero, the others write nothing.  Else the fields are read in order, and
\* an extraction past the end of the line writes nothing.
Extract3(l, fields, zero, garbage) ==
    LET comp(i) ==
            IF l.tag = <<>> THEN garbage
            ELSE IF Tail(l.tag) # <<>> THEN (IF i = 1 THEN {zero} ELSE garbage)
            ELSE IF i <= Len(fields) THEN {fields[i]}
            ELSE garbage
    IN  {<<x, y, z>> : x \in comp(1), y \in comp(2), z \in comp(3)}

\* Mutant of StoreFace: the file's one-based values stored as they are.
StoreFaceAsRead(abc) == abc

\* faces.emplace_back(a - 1, b - 1, c - 1)
StoreFace(abc) == <<USub(abc[1], U(1)), USub(abc[2], U(1)), USub(abc[3], U(1))>>

NoOutcome == [v |-> <<>>, f |-> <<>>]

\* What one pass of the loader's loop body appends for line l.
LineOutcomes(l) ==
    IF l.empty THEN {NoOutcome}
    ELSE UNION { IF t = "v"
                   THEN {[v |-> <<p>>, f |-> <<>>] :
                            p \in Extract3(l, l.floats, 0, GarbageFloat)}
                 ELSE IF t = "f"
                   THEN {[v |-> <<>>, f |-> <<StoreFace(abc)>>] :
                            abc \in Extract3(l, l.uints, U(0), GarbageUInt)}
                 ELSE {NoOutcome}
               : t \in TypeRead(l) }

\* std::ifstream file(filename); if it is not open the loader returns false
\* (program 1 writes the message itself).
OpenFile ==
    /\ pc = "load"
    /\ IF canOpen
         THEN /\ pc' = "getline"
              /\ UNCHANGED <<stderr, loadOk>>
         ELSE /\ pc' = "load_ret"
              /\ loadOk' = FALSE
              /\ stderr' = IF prog = 1 THEN Append(stderr, "Cannot open file") ELSE stderr
    /\ lineNo' = 1
    /\ ld_positions' = <<>>
    /\ ld_faces' = <<>>
    /\ UNCHANGED <<inputVars, ret, meshVars, normalVars, vertices, glVars, loopVars>>

\* One iteration of while (std::getline(file, line)).
ReadLine ==
    /\ pc = "getline"
    /\ lineNo <= Len(file)
    /\ \E out \in LineOutcomes(file[lineNo]) :
          /\ ld_positions' = ld_positions \o out.v
          /\ ld_faces' = ld_faces \o out.f
    /\ lineNo' = lineNo + 1
    /\ UNCHANGED <<inputVars, pc, ret, stderr, loadOk, meshVars, normalVars, vertices,
                   glVars, loopVars>>

\* getline fails at the end of the file: the vectors are moved out, return true.
LoadReturn ==
    /\ pc = "getline"
    /\ lineNo > Len(file)
    /\ positions' = ld_positions
    /\ faces' = ld_faces
    /\ loadOk' = TRUE
    /\ pc' = "load_ret"
    /\ UNCHANGED <<inputVars, ret, stderr, lineNo, ld_positions, ld_faces, normalVars,
                   vertices, glVars, loopVars>>

\* ------------------------------------------------------------ vectors
\* glm::vec3 values the mesh can hold are triples of small integers (exact
\* as floats).  A normalised vector is kept as its direction: [k |-> "unit",
\* d |-> the direction with its common factor divided out], so (0,0,1) as a
\* direction is the vector (0,0,1) itself.  Normalising the zero vector
\* divides by zero: [k |-> "nan"].
Zero3 == <<0, 0, 0>>

Sub3(a, b) == <<a[1] - b[1], a[2] - b[2], a[3] - b[3]>>

\* glm::cross
Cross(a, b) ==
    <<a[2] * b[3] - a[3] * b[2], a[3] * b[1] - a[1] * b[3], a[1] * b[2] - a[2] * b[1]>>

AbsInt(x) == IF x < 0 THEN -x ELSE x

RECURSIVE Gcd(_, _)
Gcd(a, b) == IF b = 0 THEN a ELSE Gcd(b, a % b)

\* glm::normalize
Normalize(v) ==
    IF v = Zero3 THEN [k |-> "nan", d |-> Zero3]
    ELSE LET n == Gcd(Gcd(AbsInt(v[1]), AbsInt(v[2])), AbsInt(v[3]))
         IN  [k |-> "unit", d |-> <<v[1] \div n, v[2] \div n, v[3] \div n>>]

\* glm::abs of a normalised vector
AbsNormal(n) == [k |-> n.k, d |-> <<AbsInt(n.d[1]), AbsInt(n.d[2]), AbsInt(n.d[3])>>]

\* What a read past the end of a vector may return.
GarbageVec == {<<9, 9, 9>>}

\* What a float written past the end of vertexNormals leaves in an int of
\* counts (the bits of a float).
GarbageCount == {1065353216}

\* An index of a face refers to a loaded position.
InRange(u) == u.hi = 0 /\ u.lo < Len(positions)

FaceInRange(f) == InRange(f[1]) /\ InRange(f[2]) /\ InRange(f[3])

\* positions[u]: the element, or whatever lies past the end.
ReadPos(u) == IF InRange(u) THEN {positions[u.lo + 1]} ELSE GarbageVec

\* The reads positions[f.x], positions[f.y], positions[f.z]: the three
\* positions, or, when an index is out of range, a crash or garbage.
FaceReads(f) ==
    {[crash |-> FALSE, p |-> <<a, b, c>>] :
        a \in ReadPos(f[1]), b \in ReadPos(f[2]), c \in ReadPos(f[3])}
    \cup (IF FaceInRange(f) THEN {} ELSE {[crash |-> TRUE, p |-> <<Zero3, Zero3, Zero3>>]})

\* glm::normalize(glm::cross(p1 - p0, p2 - p0))
FaceNormal(p) == Normalize(Cross(Sub3(p[2], p[1]), Sub3(p[3], p[1])))

\* ------------------------------------------------ program 1: flat vertices
\* Mutant of FlatVertices: the cross product is taken with its operands
\* exchanged.
FlatVerticesReversed(p) ==
    LET normal == Normalize(Cross(Sub3(p[3], p[1]), Sub3(p[2], p[1])))
        color == AbsNormal(normal)
    IN  << [pos |-> p[1], normal |-> normal, color |-> color],
           [pos |-> p[2], normal |-> normal, color |-> color],
           [pos |-> p[3], normal |-> normal, color |-> color] >>

\* The three vertices pushed for one face.
FlatVertices(p) ==
    LET normal == FaceNormal(p)
        color == AbsNormal(normal)
    IN  << [pos |-> p[1], normal |-> normal, color |-> color],
           [pos |-> p[2], normal |-> normal, color |-> color],
           [pos |-> p[3], normal |-> normal, color |-> color] >>

\* for (auto& f : faces) { ... vertices.push_back x 3 }, one face per step.
BuildFlat ==
    /\ pc = "flat"
    /\ IF fi <= Len(faces)
         THEN \E r \in FaceReads(faces[fi]) :
                 IF r.crash
                   THEN pc' = "crashed" /\ UNCHANGED <<fi, vertices>>
                   ELSE /\ vertices' = vertices \o FlatVertices(r.p)
                        /\ fi' = fi + 1
                        /\ pc' = pc
         ELSE pc' = "glfw_init" /\ fi' = 1 /\ UNCHANGED vertices
    /\ UNCHANGED <<inputVars, ret, stderr, loaderVars, meshVars, faceNormals, vertexNormals,
                   counts, glVars, loopVars>>

\* ---------------------------------------------- program 2: smooth normals
\* A vertex normal: the face normals added to it so far, in order, and, once
\* normalised, the count the sum was divided by.  glm::vec3(0.0f) has no terms.
ZeroNormal == [terms |-> <<>>, normalized |-> FALSE, n |-> 0]

\* First loop: faceNormals[i] = normalize(cross(p1 - p0, p2 - p0)).
ComputeFaceNormals ==
    /\ pc = "facenormals"
    /\ IF fi <= Len(faces)
         THEN \E r \in FaceReads(faces[fi]) :
                 IF r.crash
                   THEN pc' = "crashed" /\ UNCHANGED <<fi, faceNormals, vertexNormals, counts>>
                   ELSE /\ faceNormals' = Append(faceNormals, FaceNormal(r.p))
                        /\ fi' = fi + 1
                        /\ pc' = pc
                        /\ UNCHANGED <<vertexNormals, counts>>
         ELSE /\ vertexNormals' = [i \in 1..Len(positions) |-> ZeroNormal]
              /\ counts' = [i \in 1..Len(positions) |-> 0]
              /\ pc' = "accumulate"
              /\ fi' = 1
              /\ UNCHANGED faceNormals
    /\ UNCHANGED <<inputVars, ret, stderr, loaderVars, meshVars, vertices, glVars, loopVars>>

\* vertexNormals[u] += n
AddNormal(vn, u, n) ==
    IF InRange(u) THEN [vn EXCEPT ![u.lo + 1].terms = Append(@, n)] ELSE vn

\* counts[u]++
CountUp(c, u) == IF InRange(u) THEN [c EXCEPT ![u.lo + 1] = @ + 1] ELSE c

\* The body of the second loop for face f with normal n, on the elements
\* that exist.
AccumulateFace(vn, c, f, n) ==
    [vn |-> AddNormal(AddNormal(AddNormal(vn, f[1], n), f[2], n), f[3], n),
     c |-> CountUp(CountUp(CountUp(c, f[1]), f[2]), f[3])]

\* Second loop, one face per step.  A write through an index out of range
\* crashes, or lands outside the two vectors, or lands in counts.
Accumulate ==
    /\ pc = "accumulate"
    /\ IF fi <= Len(faces)
         THEN LET a == AccumulateFace(vertexNormals, counts, faces[fi], faceNormals[fi])
                  outcomes ==
                      IF FaceInRange(faces[fi]) THEN {[crash |-> FALSE, vn |-> a.vn, c |-> a.c]}
                      ELSE {[crash |-> TRUE, vn |-> a.vn, c |-> a.c],
                            [crash |-> FALSE, vn |-> a.vn, c |-> a.c]}
                           \cup {[crash |-> FALSE, vn |-> a.vn, c |-> [a.c EXCEPT ![j] = x]] :
                                    j \in DOMAIN a.c, x \in GarbageCount}
              IN  \E o \in outcomes :
                     IF o.crash
                       THEN pc' = "crashed" /\ UNCHANGED <<fi, vertexNormals, counts>>
                       ELSE /\ vertexNormals' = o.vn
                            /\ counts' = o.c
                            /\ fi' = fi + 1
                            /\ pc' = pc
         ELSE pc' = "normalize" /\ fi' = 1 /\ UNCHANGED <<vertexNormals, counts>>
    /\ UNCHANGED <<inputVars, ret, stderr, loaderVars, meshVars, faceNormals, vertices,
                   glVars, loopVars>>

\* Mutant of NormalizeVertex: the normal is normalised whatever the count.
NormalizeVertexAlways(v, c) == [v EXCEPT !.normalized = TRUE, !.n = c]

\* if (counts[i] > 0) vertexNormals[i] = normalize(vertexNormals[i] / counts[i])
NormalizeVertex(v, c) == IF c > 0 THEN [v EXCEPT !.normalized = TRUE, !.n = c] ELSE v

\* Third loop, over all vertices.
NormalizeNormals ==
    /\ pc = "normalize"
    /\ vertexNormals' = [i \in DOMAIN vertexNormals |-> NormalizeVertex(vertexNormals[i], counts[i])]
    /\ pc' = "triangles"
    /\ UNCHANGED <<inputVars, ret, stderr, loaderVars, meshVars, fi, faceNormals, counts,
                   vertices, glVars, loopVars>>

\* vertexNormals[u]: the element, or whatever lies past the end.
ReadNormal(u) == IF InRange(u) THEN vertexNormals[u.lo + 1] ELSE ZeroNormal

\* The three vertices pushed for one face of the triangle list.
SmoothVertices(f, p) ==
    << [pos |-> p[1], normal |-> ReadNormal(f[1])],
       [pos |-> p[2], normal |-> ReadNormal(f[2])],
       [pos |-> p[3], normal |-> ReadNormal(f[3])] >>

\* Build the triangle list, one face per step; after the last face the
\* camera radius and angle are set from the mesh (lines 314-321).
BuildTriangles ==
    /\ pc = "triangles"
    /\ IF fi <= Len(faces)
         THEN \E r \in FaceReads(faces[fi]) :
                 IF r.crash
                   THEN pc' = "crashed" /\ UNCHANGED <<fi, vertices, g>>
                   ELSE /\ vertices' = vertices \o SmoothVertices(faces[fi], r.p)
                        /\ fi' = fi + 1
                        /\ pc' = pc
                        /\ UNCHANGED g
         ELSE /\ pc' = "glfw_init"
              /\ fi' = 1
              /\ g' = [g EXCEPT !.camRadius = 0, !.camAngle = 0]
              /\ UNCHANGED vertices
    /\ UNCHANGED <<inputVars, ret, stderr, loaderVars, meshVars, faceNormals, vertexNormals,
                   counts, glVars, lastAction, nEvents, iterDraws, drawsAfterClose, frame>>

\* ------------------------------------------------------------------ main
\* if (argc < 2) { usage; return -1; }
CheckArgs ==
    /\ pc = "main"
    /\ IF argc < 2
         THEN /\ stderr' = Append(stderr, "Usage")
              /\ ret' = <<-1>>
              /\ pc' = "exit"
         ELSE /\ pc' = "load"
              /\ UNCHANGED <<stderr, ret>>
    /\ UNCHANGED <<inputVars, loaderVars, meshVars, normalVars, vertices, glVars, loopVars>>

\* Mutant of AfterLoad: the loader's result is not tested.
AfterLoadUnchecked ==
    /\ pc = "load_ret"
    /\ pc' = IF prog = 1 THEN "flat" ELSE "facenormals"
    /\ fi' = 1
    /\ UNCHANGED <<inputVars, ret, stderr, loaderVars, meshVars, faceNormals, vertexNormals,
                   counts, vertices, glVars, loopVars>>

\* if (!loader(...)) return -1  (program 2 writes the message here).
AfterLoad ==
    /\ pc = "load_ret"
    /\ IF loadOk
         THEN /\ pc' = IF prog = 1 THEN "flat" ELSE "facenormals"
              /\ UNCHANGED <<stderr, ret>>
         ELSE /\ stderr' = IF prog = 2 THEN Append(stderr, "Failed to open") ELSE stderr
              /\ ret' = <<-1>>
              /\ pc' = "exit"
    /\ fi' = 1
    /\ UNCHANGED <<inputVars, loaderVars, meshVars, faceNormals, vertexNormals, counts,
                   vertices, glVars, loopVars>>

\* The exit status the shell sees for main's return value.
ExitStatus == ret[1] % 256

\* ------------------------------------------------------------ GPU objects
Programs(p) == IF p = 1 THEN {"program"} ELSE {"progG", "progP"}

\* The GPU objects main owns, and the shader objects createProgram makes.
Resources(p) == Programs(p) \cup {"vao", "vbo", "shaders"}

Created(gp, names, k) == [r \in DOMAIN gp |-> IF r \in names THEN [gp[r] EXCEPT !.created = @ + k] ELSE gp[r]]

Deleted(gp, names, k) == [r \in DOMAIN gp |-> IF r \in names THEN [gp[r] EXCEPT !.deleted = @ + k] ELSE gp[r]]

\* glfwInit, the window hints, glfwCreateWindow, glfwMakeContextCurrent.
InitWindow ==
    /\ pc = "glfw_init"
    /\ \E outcome \in {"ok", "init_failed", "no_window"} :
          /\ glfw' = CASE outcome = "ok" -> "on"
                       [] outcome = "init_failed" -> "off"
                       [] OTHER -> "terminated"
          /\ window' = IF outcome = "ok" THEN "open" ELSE "none"
          /\ ret' = IF outcome = "ok" THEN ret ELSE <<-1>>
          /\ pc' = IF outcome = "ok" THEN "glad" ELSE "exit"
    /\ UNCHANGED <<inputVars, stderr, loaderVars, meshVars, normalVars, vertices, keyCallback,
                   gpu, vboCount, loopVars>>

\* gladLoadGLLoader; on failure a message and return -1.
LoadGL ==
    /\ pc = "glad"
    /\ \E ok \in BOOLEAN :
          IF ok THEN pc' = "programs" /\ UNCHANGED <<stderr, ret>>
          ELSE /\ stderr' = Append(stderr, "Failed to load GL")
               /\ ret' = <<-1>>
               /\ pc' = "exit"
    /\ UNCHANGED <<inputVars, loaderVars, meshVars, normalVars, vertices, glVars, loopVars>>

\* glfwSetKeyCallback and createProgram for each program: two shader objects
\* are created and deleted per program; a compile or link error is written
\* and the program is returned all the same.
CreatePrograms ==
    /\ pc = "programs"
    /\ keyCallback' = IF prog = 1 THEN "onKey" ELSE "key_callback"
    /\ LET n == Cardinality(Programs(prog))
       IN  gpu' = Deleted(Created(Created(gpu, Programs(prog), 1), {"shaders"}, 2 * n),
                          {"shaders"}, 2 * n)
    /\ \E failed \in BOOLEAN :
          stderr' = IF failed THEN Append(stderr, "Shader error") ELSE stderr
    /\ pc' = "buffers"
    /\ UNCHANGED <<inputVars, ret, loaderVars, meshVars, normalVars, vertices, glfw, window,
                   vboCount, loopVars>>

\* glGenVertexArrays, glGenBuffers, glBufferData; program 1 then sets
\* cameraRadius from the mesh (line 227).
CreateBuffers ==
    /\ pc = "buffers"
    /\ gpu' = Created(gpu, {"vao", "vbo"}, 1)
    /\ vboCount' = Len(vertices)
    /\ g' = IF prog = 1 THEN [g EXCEPT !.cameraRadius = 0] ELSE g
    /\ pc' = "loop_check"
    /\ UNCHANGED <<inputVars, ret, stderr, loaderVars, meshVars, normalVars, vertices, glfw,
                   window, keyCallback, lastAction, nEvents, iterDraws, drawsAfterClose, frame>>

\* ----------------------------------------------------------- key handlers
\* The globals at their initialisers.  The floats the handlers step by 0.05f
\* are counted in steps from the value they have when the loop starts.
Globals(p) ==
    IF p = 1
      THEN [cameraTheta |-> 0, cameraRadius |-> 0, cameraHeight |-> 0,
            usePerspective |-> TRUE, shouldClose |-> FALSE]
      ELSE [camAngle |-> 0, camRadius |-> 0, camHeight |-> 0,
            lightAngle |-> 0, lightRadius |-> 0, lightHeight |-> 0,
            perspectiveProj |-> TRUE, shadingMode |-> 1, currentMaterial |-> 0,
            shouldClose |-> FALSE]

\* The keys either program binds, and one no program binds.
Keys1 == {"A", "D", "W", "S", "Q", "E", "P", "ESCAPE"}

Keys2 == {"A", "D", "W", "S", "Q", "E", "J", "L", "I", "K", "U", "O", "P", "1", "2", "M",
          "ESCAPE"}

KeySet == Keys2 \cup {"X"}

KeyActions == {"PRESS", "REPEAT", "RELEASE"}

\* Mutant of onKey: only the initial press is handled.
onKeyPressOnly(s, key, action) ==
    IF action = "PRESS"
      THEN CASE key = "A" -> [s EXCEPT !.cameraTheta = @ - 1]
             [] key = "D" -> [s EXCEPT !.cameraTheta = @ + 1]
             [] key = "W" -> [s EXCEPT !.cameraRadius = @ - 1]
             [] key = "S" -> [s EXCEPT !.cameraRadius = @ + 1]
             [] key = "Q" -> [s EXCEPT !.cameraHeight = @ + 1]
             [] key = "E" -> [s EXCEPT !.cameraHeight = @ - 1]
             [] key = "P" -> [s EXCEPT !.usePerspective = ~@]
             [] key = "ESCAPE" -> [s EXCEPT !.shouldClose = TRUE]
             [] OTHER -> s
      ELSE s

\* Mutant of onKey: the case of P has no break and falls through to ESCAPE.
onKeyFallthrough(s, key, action) ==
    IF action = "PRESS" \/ action = "REPEAT"
      THEN CASE key = "A" -> [s EXCEPT !.cameraTheta = @ - 1]
             [] key = "D" -> [s EXCEPT !.cameraTheta = @ + 1]
             [] key = "W" -> [s EXCEPT !.cameraRadius = @ - 1]
             [] key = "S" -> [s EXCEPT !.cameraRadius = @ + 1]
             [] key = "Q" -> [s EXCEPT !.cameraHeight = @ + 1]
             [] key = "E" -> [s EXCEPT !.cameraHeight = @ - 1]
             [] key = "P" -> [s EXCEPT !.usePerspective = ~@, !.shouldClose = TRUE]
             [] key = "ESCAPE" -> [s EXCEPT !.shouldClose = TRUE]
             [] OTHER -> s
      ELSE s

\* Program 1: onKey.
onKey(s, key, action) ==
    IF action = "PRESS" \/ action = "REPEAT"
      THEN CASE key = "A" -> [s EXCEPT !.cameraTheta = @ - 1]
             [] key = "D" -> [s EXCEPT !.cameraTheta = @ + 1]
             [] key = "W" -> [s EXCEPT !.cameraRadius = @ - 1]
             [] key = "S" -> [s EXCEPT !.cameraRadius = @ + 1]
             [] key = "Q" -> [s EXCEPT !.cameraHeight = @ + 1]
             [] key = "E" -> [s EXCEPT !.cameraHeight = @ - 1]
             [] key = "P" -> [s EXCEPT !.usePerspective = ~@]
             [] key = "ESCAPE" -> [s EXCEPT !.shouldClose = TRUE]
             [] OTHER -> s
      ELSE s

\* The modulus of the material key's step (line 267).
MaterialModulus == 3

\* Number of entries main pushes into the materials vector (lines 324-343).
NumMaterials == 3

\* Mutant of NextMaterial: the index is stepped without the modulus.
NextMaterialNoWrap(m) == m + 1

\* (currentMaterial + 1) % 3
NextMaterial(m) == (m + 1) % MaterialModulus

\* Program 2: key_callback, its ifs in order.
key_callback(s, key, action) ==
    IF action = "PRESS" \/ action = "REPEAT"
      THEN LET s1 == IF key = "A" THEN [s EXCEPT !.camAngle = @ - 1] ELSE s
               s2 == IF key = "D" THEN [s1 EXCEPT !.camAngle = @ + 1] ELSE s1
               s3 == IF key = "W" THEN [s2 EXCEPT !.camRadius = @ - 1] ELSE s2
               s4 == IF key = "S" THEN [s3 EXCEPT !.camRadius = @ + 1] ELSE s3
               s5 == IF key = "Q" THEN [s4 EXCEPT !.camHeight = @ + 1] ELSE s4
               s6 == IF key = "E" THEN [s5 EXCEPT !.camHeight = @ - 1] ELSE s5
               s7 == IF key = "J" THEN [s6 EXCEPT !.lightAngle = @ - 1] ELSE s6
               s8 == IF key = "L" THEN [s7 EXCEPT !.lightAngle = @ + 1] ELSE s7
               s9 == IF key = "I" THEN [s8 EXCEPT !.lightRadius = @ - 1] ELSE s8
               s10 == IF key = "K" THEN [s9 EXCEPT !.lightRadius = @ + 1] ELSE s9
               s11 == IF key = "U" THEN [s10 EXCEPT !.lightHeight = @ + 1] ELSE s10
               s12 == IF key = "O" THEN [s11 EXCEPT !.lightHeight = @ - 1] ELSE s11
               s13 == IF key = "P" THEN [s12 EXCEPT !.perspectiveProj = ~@] ELSE s12
               s14 == IF key = "1" THEN [s13 EXCEPT !.shadingMode = 1] ELSE s13
               s15 == IF key = "2" THEN [s14 EXCEPT !.shadingMode = 2] ELSE s14
               s16 == IF key = "M" /\ action = "PRESS"
                        THEN [s15 EXCEPT !.currentMaterial = NextMaterial(@)]
                        ELSE s15
           IN  IF key = "ESCAPE" THEN [s16 EXCEPT !.shouldClose = TRUE] ELSE s16
      ELSE s

\* Mutant of Handler: the close flag is set without testing the key.
HandlerClosesOnAnyKey(s, key, action) ==
    LET t == IF prog = 1 THEN onKey(s, key, action) ELSE key_callback(s, key, action)
    IN  IF action = "PRESS" \/ action = "REPEAT" THEN [t EXCEPT !.shouldClose = TRUE] ELSE t

\* The callback GLFW calls for a key event of the running program.
Handler(s, key, action) ==
    IF prog = 1 THEN onKey(s, key, action) ELSE key_callback(s, key, action)

NoEvent == "none"

\* ------------------------------------------------------------ render loop
NoFrame == [program |-> "none", count |-> 0, perspective |-> TRUE, material |-> 0,
            materialValid |-> TRUE, light0InCameraSpace |-> 0, light1InCameraSpace |-> 0,
            lightsInWorldSpace |-> TRUE]

\* The inCameraSpace members main sets on light0 and light1 (lines 350, 356).
Light0InCameraSpace == FALSE

Light1InCameraSpace == TRUE

\* while (!glfwWindowShouldClose(window))
LoopCheck ==
    /\ pc = "loop_check"
    /\ pc' = IF g.shouldClose THEN "cleanup" ELSE "poll"
    /\ iterDraws' = 0
    /\ UNCHANGED <<inputVars, ret, stderr, loaderVars, meshVars, normalVars, vertices, glVars,
                   g, lastAction, nEvents, drawsAfterClose, frame>>

\* glfwPollEvents delivers a key event to the key callback.
KeyEvent(key, action) ==
    /\ pc = "poll"
    /\ nEvents < MaxEvents
    /\ g' = Handler(g, key, action)
    /\ lastAction' = action
    /\ nEvents' = nEvents + 1
    /\ UNCHANGED <<inputVars, pc, ret, stderr, loaderVars, meshVars, normalVars, vertices,
                   glVars, iterDraws, drawsAfterClose, frame>>

\* glfwPollEvents handles the window's close request: GLFW sets the close flag.
CloseRequest ==
    /\ pc = "poll"
    /\ nEvents < MaxEvents
    /\ g' = [g EXCEPT !.shouldClose = TRUE]
    /\ lastAction' = "CLOSE"
    /\ nEvents' = nEvents + 1
    /\ UNCHANGED <<inputVars, pc, ret, stderr, loaderVars, meshVars, normalVars, vertices,
                   glVars, iterDraws, drawsAfterClose, frame>>

\* glfwPollEvents returns.
PollReturn ==
    /\ pc = "poll"
    /\ pc' = "render"
    /\ lastAction' = NoEvent
    /\ UNCHANGED <<inputVars, ret, stderr, loaderVars, meshVars, normalVars, vertices, glVars,
                   g, nEvents, iterDraws, drawsAfterClose, frame>>

\* Mutant of ActiveProgram: the Gouraud program is used whatever the flag.
ActiveProgramAlwaysGouraud ==
    IF prog = 1 THEN "program" ELSE "progG"

\* The program glUseProgram selects.
ActiveProgram ==
    IF prog = 1 THEN "program"
    ELSE IF g.shadingMode = 1 THEN "progG" ELSE "progP"

\* The int a bool converts to in glUniform1i.
FlagValue(b) == IF b THEN 1 ELSE 0

\* Mutant of FrameOf: each light's inCameraSpace member is uploaded.
FrameOfForwardsFlags ==
    IF prog = 1
      THEN [NoFrame EXCEPT !.program = ActiveProgram,
                           !.count = Len(vertices),
                           !.perspective = g.usePerspective]
      ELSE [program |-> ActiveProgram,
            count |-> Len(vertices),
            perspective |-> g.perspectiveProj,
            material |-> g.currentMaterial,
            materialValid |-> g.currentMaterial \in 0..(NumMaterials - 1),
            light0InCameraSpace |-> FlagValue(Light0InCameraSpace),
            light1InCameraSpace |-> FlagValue(Light1InCameraSpace),
            lightsInWorldSpace |-> TRUE]

\* What the rest of the loop body sets up and draws: the matrices, the
\* program, the uniforms, glDrawArrays over vertices.size(), the buffer swap.
FrameOf ==
    IF prog = 1
      THEN [NoFrame EXCEPT !.program = ActiveProgram,
                           !.count = Len(vertices),
                           !.perspective = g.usePerspective]
      ELSE [program |-> ActiveProgram,
            count |-> Len(vertices),
            perspective |-> g.perspectiveProj,
            material |-> g.currentMaterial,
            materialValid |-> g.currentMaterial \in 0..(NumMaterials - 1),
            light0InCameraSpace |-> 0,
            light1InCameraSpace |-> 0,
            lightsInWorldSpace |-> TRUE]

\* Mutant of RenderFrame: the frame pushes the vertices again.
RenderFrameRebuilds ==
    /\ pc = "render"
    /\ frame' = FrameOf
    /\ vertices' = vertices \o vertices
    /\ iterDraws' = iterDraws + 1
    /\ drawsAfterClose' = IF g.shouldClose THEN drawsAfterClose + 1 ELSE drawsAfterClose
    /\ pc' = "loop_check"
    /\ UNCHANGED <<inputVars, ret, stderr, loaderVars, meshVars, normalVars, glVars,
                   g, lastAction, nEvents>>

\* Mutant of RenderFrame: the body breaks out before drawing when the poll
\* left the close flag set.
RenderFrameSkipsOnClose ==
    /\ pc = "render"
    /\ frame' = IF g.shouldClose THEN frame ELSE FrameOf
    /\ iterDraws' = IF g.shouldClose THEN iterDraws ELSE iterDraws + 1
    /\ drawsAfterClose' = drawsAfterClose
    /\ pc' = "loop_check"
    /\ UNCHANGED <<inputVars, ret, stderr, loaderVars, meshVars, normalVars, vertices, glVars,
                   g, lastAction, nEvents>>

RenderFrame ==
    /\ pc = "render"
    /\ frame' = FrameOf
    /\ iterDraws' = iterDraws + 1
    /\ drawsAfterClose' = IF g.shouldClose THEN drawsAfterClose + 1 ELSE drawsAfterClose
    /\ pc' = "loop_check"
    /\ UNCHANGED <<inputVars, ret, stderr, loaderVars, meshVars, normalVars, vertices, glVars,
                   g, lastAction, nEvents>>

\* Mutant of Cleanup: the vertex buffer is not deleted.
CleanupLeaksBuffer ==
    /\ pc = "cleanup"
    /\ gpu' = Deleted(gpu, Programs(prog) \cup {"vao"}, 1)
    /\ window' = "destroyed"
    /\ glfw' = "terminated"
    /\ ret' = <<0>>
    /\ pc' = "exit"
    /\ UNCHANGED <<inputVars, stderr, loaderVars, meshVars, normalVars, vertices, keyCallback,
                   vboCount, loopVars>>

\* glDeleteProgram, glDeleteBuffers, glDeleteVertexArrays, glfwDestroyWindow,
\* glfwTerminate, return 0.
Cleanup ==
    /\ pc = "cleanup"
    /\ gpu' = Deleted(gpu, Programs(prog) \cup {"vbo", "vao"}, 1)
    /\ window' = "destroyed"
    /\ glfw' = "terminated"
    /\ ret' = <<0>>
    /\ pc' = "exit"
    /\ UNCHANGED <<inputVars, stderr, loaderVars, meshVars, normalVars, vertices, keyCallback,
                   vboCount, loopVars>>

\* ------------------------------------------------- loader specification
Files == UNION { [1..n -> LineSet] : n \in 0..MaxLines }

\* The state when main is entered: nothing loaded, no window, the globals as
\* their initialisers leave them.
InitRest ==
    /\ ret = <<>>
    /\ stderr = <<>>
    /\ loadOk = FALSE
    /\ lineNo = 1
    /\ ld_positions = <<>>
    /\ ld_faces = <<>>
    /\ fi = 1
    /\ faceNormals = <<>>
    /\ vertexNormals = <<>>
    /\ counts = <<>>
    /\ vertices = <<>>
    /\ glfw = "off"
    /\ window = "none"
    /\ keyCallback = "none"
    /\ gpu = [r \in Resources(prog) |-> [created |-> 0, deleted |-> 0]]
    /\ vboCount = 0
    /\ g = Globals(prog)
    /\ lastAction = NoEvent
    /\ nEvents = 0
    /\ iterDraws = 0
    /\ drawsAfterClose = 0
    /\ frame = NoFrame

InitLoad ==
    /\ prog \in {1, 2}
    /\ argc = 2
    /\ canOpen \in BOOLEAN
    /\ file \in Files
    /\ pc = "load"
    /\ positions = <<>>
    /\ faces = <<>>
    /\ InitRest

NextLoad == OpenFile \/ ReadLine \/ LoadReturn

SpecLoad == InitLoad /\ [][NextLoad]_vars

\* -------------------------------------------------- whole-program run
\* A mesh with an unreferenced vertex, a comment and an empty line.
MeshFile ==
    << Line(<<"#">>, <<>>, <<>>),
       Line(<<"v">>, <<0, 0, 0>>, <<>>),
       Line(<<"v">>, <<1, 0, 0>>, <<>>),
       Line(<<"v">>, <<0, 1, 0>>, <<>>),
       Line(<<"v">>, <<0, 0, 1>>, <<>>),
       EmptyLine,
       Line(<<"f">>, <<>>, <<U(1), U(2), U(3)>>) >>

\* A mesh of two faces that share an edge.
QuadFile ==
    << Line(<<"v">>, <<0, 0, 0>>, <<>>),
       Line(<<"v">>, <<1, 0, 0>>, <<>>),
       Line(<<"v">>, <<0, 1, 0>>, <<>>),
       Line(<<"v">>, <<1, 1, 0>>, <<>>),
       Line(<<"f">>, <<>>, <<U(1), U(2), U(3)>>),
       Line(<<"f">>, <<>>, <<U(2), U(4), U(3)>>) >>

SampleFiles == {MeshFile, QuadFile}

Init ==
    /\ prog \in {1, 2}
    /\ argc \in {1, 2}
    /\ canOpen \in BOOLEAN
    /\ file \in SampleFiles
    /\ pc = "main"
    /\ positions = <<>>
    /\ faces = <<>>
    /\ InitRest

Next ==
    \/ CheckArgs
    \/ OpenFile
    \/ ReadLine
    \/ LoadReturn
    \/ AfterLoad
    \/ BuildFlat
    \/ ComputeFaceNormals
    \/ Accumulate
    \/ NormalizeNormals
    \/ BuildTriangles
    \/ InitWindow
    \/ LoadGL
    \/ CreatePrograms
    \/ CreateBuffers
    \/ LoopCheck
    \/ \E key \in KeySet, action \in KeyActions : KeyEvent(key, action)
    \/ CloseRequest
    \/ PollReturn
    \/ RenderFrame
    \/ Cleanup

Spec == Init /\ [][Next]_vars

\* The main thread runs on: the poll returns, the frame is drawn, the loop
\* condition is tested.
FairSpec == Spec /\ WF_vars(PollReturn) /\ WF_vars(RenderFrame) /\ WF_vars(LoopCheck)

\* ------------------------------------------- normal-processing runs
\* Meshes as the loader returns them: three or four positions and up to
\* MaxFaces faces, among them a face with a repeated vertex, a face whose
\* last index is past three positions, and a face read from the file value 0.
PositionList == << <<0, 0, 0>>, <<1, 0, 0>>, <<0, 1, 0>>, <<0, 0, 1>> >>

FaceSet ==
    { <<U(0), U(1), U(2)>>,
      <<U(0), U(2), U(1)>>,
      <<U(1), U(2), U(3)>>,
      <<U(0), U(1), U(1)>>,
      <<UMax, U(0), U(1)>> }

InitGeom ==
    /\ prog \in {1, 2}
    /\ argc = 2
    /\ canOpen = TRUE
    /\ file = <<>>
    /\ pc = IF prog = 1 THEN "flat" ELSE "facenormals"
    /\ \E n \in {3, 4} : positions = SubSeq(PositionList, 1, n)
    /\ faces \in UNION { [1..n -> FaceSet] : n \in 0..MaxFaces }
    /\ InitRest

NextGeom ==
    \/ BuildFlat
    \/ ComputeFaceNormals
    \/ Accumulate
    \/ NormalizeNormals
    \/ BuildTriangles

SpecGeom == InitGeom /\ [][NextGeom]_vars

\* ------------------------------------------------------ claims: loader
VLines == SelectSeq(file, IsVLine)

FLines == SelectSeq(file, IsFLine)

Loaded == pc = "load_ret" /\ loadOk

\* The loop body is run on line l by this step.
ReadsLine(l) ==
    /\ pc = "getline"
    /\ lineNo <= Len(file)
    /\ file[lineNo] = l
    /\ lineNo' = lineNo + 1

\* C1: when the file opens, the loader returns one position per v line and
\* one face per f line, in the order of the lines: the k-th position holds
\* the fields of the k-th v line and the k-th face those of the k-th f line.
C1_OnePerLineInOrder ==
    Loaded =>
        /\ Len(positions) = Len(VLines)
        /\ Len(faces) = Len(FLines)
        /\ \A k \in 1..Len(VLines) : \A i \in 1..Len(VLines[k].floats) :
              positions[k][i] = VLines[k].floats[i]
        /\ \A k \in 1..Len(FLines) : \A i \in 1..Len(FLines[k].uints) :
              faces[k][i] = USub(FLines[k].uints[i], U(1))

\* C2: a non-empty line whose first token is neither v nor f adds nothing to
\* the positions and nothing to the faces.
C2_OtherTagIgnored ==
    [][\A l \in LineSet :
          (ReadsLine(l) /\ IsOtherLine(l)) =>
              (ld_positions' = ld_positions /\ ld_faces' = ld_faces)]_vars

\* C3 as stated: each index stored for an f line is, as an integer, exactly
\* one less than the value in the file, whatever that value is.
C3_AlwaysOneLess ==
    [][\A l \in LineSet :
          (ReadsLine(l) /\ IsFLine(l) /\ Len(l.uints) = 3) =>
              /\ ld_positions' = ld_positions
              /\ Len(ld_faces') = Len(ld_faces) + 1
              /\ \A i \in 1..3 : IsOneLess(ld_faces'[Len(ld_faces')][i], l.uints[i])]_vars

\* C3 amended: each index stored for an f line is one less than the value in
\* the file when that value is at least 1, and the largest unsigned value
\* (2^32 - 1) when the value in the file is 0.
C3_OneLessModulo ==
    [][\A l \in LineSet :
          (ReadsLine(l) /\ IsFLine(l) /\ Len(l.uints) = 3) =>
              /\ ld_positions' = ld_positions
              /\ Len(ld_faces') = Len(ld_faces) + 1
              /\ \A i \in 1..3 :
                    LET s == ld_faces'[Len(ld_faces')][i]
                    IN  IF l.uints[i] = U(0) THEN s = UMax
                        ELSE IsOneLess(s, l.uints[i])]_vars

\* An f line holding 0, 65536 and 2^32 - 1 was loaded after an ordinary one.
C3_Witness ==
    /\ Loaded
    /\ faces = << <<U(0), U(1), U(2)>>,
                  <<UMax, U(UHalf - 1), [hi |-> UHalf - 1, lo |-> UHalf - 2]>> >>

\* -------------------------------------------------- claims: whole program
InLoop == pc \in {"loop_check", "poll", "render"}

\* The GPU objects main allocates and must release.
Owned == Programs(prog) \cup {"vao", "vbo"}

\* C4: a missing argument and a file that cannot be opened are fatal: no
\* window, no GLFW, no GPU object and no loop iteration ever exist, and the
\* process ends with one message on the error stream and a non-zero status.
C4_FatalErrors ==
    (argc < 2 \/ ~canOpen) =>
        /\ pc \in {"main", "load", "load_ret", "exit"}
        /\ window = "none" /\ glfw = "off" /\ keyCallback = "none"
        /\ \A r \in DOMAIN gpu : gpu[r].created = 0
        /\ vboCount = 0 /\ iterDraws = 0 /\ frame = NoFrame /\ nEvents = 0
        /\ pc = "exit" =>
              /\ ret # <<>>
              /\ ExitStatus # 0
              /\ stderr = IF argc < 2 THEN <<"Usage">>
                          ELSE IF prog = 1 THEN <<"Cannot open file">>
                          ELSE <<"Failed to open">>

\* The file given on the command line could not be opened and main returned.
C4_Witness == pc = "exit" /\ argc = 2 /\ ~canOpen /\ ret = <<-1>>

\* C5: the loop is running or closing; the close flag changes only from
\* unset to set, and only by a press or repeat of Escape or a close request;
\* once it is set inside the loop no further poll is begun, and the loop is
\* left.
C5_RunningThenClosing ==
    /\ [](g.shouldClose \in BOOLEAN)
    /\ [][(g.shouldClose' # g.shouldClose) =>
             /\ ~g.shouldClose
             /\ g.shouldClose'
             /\ \/ CloseRequest
                \/ \E a \in {"PRESS", "REPEAT"} : KeyEvent("ESCAPE", a)]_vars
    /\ [][(InLoop /\ g.shouldClose) => (pc' # "poll" \/ pc = "poll")]_vars
    /\ (InLoop /\ g.shouldClose) ~> ~InLoop

\* The loop was left after the close flag was set, and main returned 0.
C5_Witness == pc = "exit" /\ ret = <<0>> /\ g.shouldClose /\ drawsAfterClose = 1

\* C6: each GPU object main owns is created at most once and deleted at
\* most once; while the loop runs, and until cleanup, each exists (created
\* once, not deleted); when main returns 0 each was created once and
\* deleted once.
C6_GpuLifetime ==
    \A r \in Owned :
        /\ gpu[r].created <= 1
        /\ gpu[r].deleted <= gpu[r].created
        /\ (InLoop \/ pc = "cleanup") => (gpu[r].created = 1 /\ gpu[r].deleted = 0)
        /\ (pc = "exit" /\ ret = <<0>>) => (gpu[r].created = 1 /\ gpu[r].deleted = 1)

\* Program 2 left the loop and released what it owned.
C6_Witness ==
    /\ prog = 2 /\ pc = "exit" /\ ret = <<0>>
    /\ \A r \in Owned : gpu[r].created = 1 /\ gpu[r].deleted = 1

BoundKeys == IF prog = 1 THEN Keys1 ELSE Keys2

\* C7 as stated: for every bound key a repeat event has the effect of a
\* press of that key in the same state.
C7_RepeatAsPress ==
    keyCallback # "none" =>
        \A key \in BoundKeys : Handler(g, key, "REPEAT") = Handler(g, key, "PRESS")

\* C7 amended: for every bound key but the material key of program 2 a
\* repeat event has the effect of a press of that key in the same state; a
\* repeat of the material key of program 2 changes nothing, a press does.
C7_RepeatAsPressButMaterial ==
    keyCallback # "none" =>
        /\ \A key \in BoundKeys \ (IF prog = 2 THEN {"M"} ELSE {}) :
              Handler(g, key, "REPEAT") = Handler(g, key, "PRESS")
        /\ prog = 2 => (Handler(g, "M", "REPEAT") = g /\ Handler(g, "M", "PRESS") # g)

\* A repeat event was the only event, and it moved the camera of program 1
\* (so it was a repeat of A).
C7_Witness ==
    /\ prog = 1 /\ nEvents = 1
    /\ lastAction = "REPEAT"
    /\ g.cameraTheta = -1

\* C8: in program 2 the material index is 0 before any event, is always
\* one of 0, 1, 2 (the positions of the materials vector, also when a frame
\* uses it), a press of the material key takes 0 to 1, 1 to 2 and 2 to 0,
\* and three presses bring it back.
C8_MaterialCycle ==
    prog = 2 =>
        LET m == g.currentMaterial
            press(s) == key_callback(s, "M", "PRESS")
        IN  /\ m \in 0..(NumMaterials - 1)
            /\ nEvents = 0 => m = 0
            /\ press(g).currentMaterial = (IF m = 2 THEN 0 ELSE m + 1)
            /\ press(press(press(g))) = g
            /\ frame.materialValid
            /\ frame.material \in 0..(NumMaterials - 1)

\* The last frame used material 2 (after two presses of the material key)
\* and the third event, a press, wrapped the index to 0.
C8_Witness ==
    /\ prog = 2 /\ nEvents = 3 /\ pc = "poll"
    /\ frame.material = 2
    /\ lastAction = "PRESS"
    /\ g.currentMaterial = 0

\* C9: no step of the render loop (a key event, a close request, a frame)
\* changes the positions, the faces, the vertex list or the uploaded count.
C9_GeometryFixed ==
    [][InLoop => UNCHANGED <<positions, faces, vertices, vboCount>>]_vars

\* A frame was drawn after the projection, the shading mode and the
\* material were changed, with the mesh as it was loaded.
C9_Witness ==
    /\ prog = 2 /\ pc = "loop_check"
    /\ frame.program = "progP" /\ frame.material = 1 /\ ~frame.perspective
    /\ Len(positions) = 4 /\ Len(faces) = 1 /\ Len(vertices) = 3 /\ vboCount = 3

\* ------------------------------------------------ claims: smooth normals
\* How often vertex i (from 1) occurs in the index triples of the faces.
Occurrences(i) ==
    Cardinality({kc \in (1..Len(faces)) \X (1..3) : faces[kc[1]][kc[2]] = U(i - 1)})

AllFacesInRange == \A k \in 1..Len(faces) : FaceInRange(faces[k])

NormalsDone == prog = 2 /\ pc \in {"triangles", "glfw_init"}

\* After the third loop: the counts are the occurrences, and a vertex of no
\* face has the zero normal, not normalised.
CountsAndZeroNormals ==
    /\ prog = 2 => pc # "crashed"
    /\ NormalsDone =>
          \A i \in 1..Len(positions) :
              /\ counts[i] = Occurrences(i)
              /\ Occurrences(i) = 0 => vertexNormals[i] = ZeroNormal
              /\ Occurrences(i) > 0 => vertexNormals[i].normalized

\* C10 as stated: for any loaded mesh, normal processing ends without an
\* error with each count equal to the vertex's occurrences in the faces and
\* each unreferenced vertex left with the zero normal, not normalised.
C10_CountsForAnyMesh == CountsAndZeroNormals

\* C10 amended: the same, for a mesh whose face indices all refer to loaded
\* positions.
C10_CountsForValidMesh == AllFacesInRange => CountsAndZeroNormals

\* Two faces share two vertices and leave the fourth position unreferenced.
C10_Witness ==
    /\ NormalsDone /\ AllFacesInRange
    /\ Len(positions) = 4 /\ Len(faces) = 2
    /\ Occurrences(1) = 2 /\ Occurrences(4) = 0
    /\ counts[1] = 2 /\ vertexNormals[4] = ZeroNormal

\* -------------------------------------------------- claims: flat vertices
FlatDone == prog = 1 /\ pc = "glfw_init"

\* positions[faces[k][j]], for an index in range.
FacePos(k, j) == positions[faces[k][j].lo + 1]

\* cross(p1 - p0, p2 - p0) of the loaded positions of face k.
FaceCross(k) ==
    Cross(Sub3(FacePos(k, 2), FacePos(k, 1)), Sub3(FacePos(k, 3), FacePos(k, 1)))

NoDegenerateFace ==
    \A k \in 1..Len(faces) : FaceInRange(faces[k]) => FaceCross(k) # Zero3

\* The three vertices of face k in the list: the positions in winding order,
\* one normal that is a unit vector along the cross product, one color that
\* is the absolute value of the normal.
FlatFaceOk(k) ==
    LET v(j) == vertices[3 * (k - 1) + j]
        n == v(1).normal
        c == FaceCross(k)
    IN  /\ FaceInRange(faces[k])
        /\ \A j \in 1..3 : v(j).pos = FacePos(k, j)
        /\ \A j \in 1..3 : v(j).normal = n /\ v(j).color = v(1).color
        /\ n.k = "unit"
        /\ \E t \in 1..(AbsInt(c[1]) + AbsInt(c[2]) + AbsInt(c[3])) :
              c = <<t * n.d[1], t * n.d[2], t * n.d[3]>>
        /\ (<<FacePos(k, 1), FacePos(k, 2), FacePos(k, 3)>>
               = << <<0, 0, 0>>, <<1, 0, 0>>, <<0, 1, 0>> >>) => n.d = <<0, 0, 1>>
        /\ v(1).color.k = n.k
        /\ \A i \in 1..3 :
              v(1).color.d[i] = (IF n.d[i] < 0 THEN 0 - n.d[i] ELSE n.d[i])

FlatListOk ==
    /\ prog = 1 => pc # "crashed"
    /\ FlatDone =>
          /\ Len(vertices) = 3 * Len(faces)
          /\ \A k \in 1..Len(faces) : FlatFaceOk(k)

\* C11 as stated: for any loaded mesh the flat vertex list has three
\* vertices per face, in face order and winding order, the three carrying
\* one normal along cross(p1 - p0, p2 - p0) and one color, the absolute
\* value of the normal.
C11_FlatForAnyMesh == FlatListOk

\* C11 amended: the same, for a mesh whose face indices all refer to loaded
\* positions and whose faces all have a cross product other than zero.
C11_FlatForProperMesh == (AllFacesInRange /\ NoDegenerateFace) => FlatListOk

\* The face (0,0,0), (1,0,0), (0,1,0) got the normal (0,0,1), and the same
\* face wound the other way got (0,0,-1) with the color (0,0,1).
C11_Witness ==
    /\ FlatDone /\ Len(faces) = 2 /\ Len(vertices) = 6
    /\ faces[1] = <<U(0), U(1), U(2)>> /\ faces[2] = <<U(0), U(2), U(1)>>
    /\ vertices[1].normal = [k |-> "unit", d |-> <<0, 0, 1>>]
    /\ vertices[4].normal = [k |-> "unit", d |-> <<0, 0, -1>>]
    /\ vertices[6].color = [k |-> "unit", d |-> <<0, 0, 1>>]

\* ------------------------------------------- claims: state and key events
\* The variables whose values differ between s and t.
Changed(s, t) == {f \in DOMAIN s : s[f] # t[f]}

\* C12: on every value of the state variables that a poll returns with (the
\* values the callback can be called on), any key event would change at most
\* one of the state variables, and a release or an unbound key none; every
\* step of the render loop changes at most one of them; there the camera,
\* light and mode variables (all but the close request) change only in a
\* step of the poll that delivers a press or repeat of a bound key and has
\* that key's effect; the rest of the loop body (poll return, frame, loop
\* test) changes none of them.
C12_OnlyKeysAtMostOne ==
    /\ [][InLoop => Cardinality(Changed(g, g')) <= 1]_vars
    /\ [](pc = "render" =>
            \A key \in KeySet, action \in KeyActions :
                LET t == Handler(g, key, action)
                IN  /\ Cardinality(Changed(g, t)) <= 1
                    /\ (action = "RELEASE" \/ key \notin BoundKeys) => t = g)
    /\ [][(InLoop /\ g' # g /\ g'.shouldClose = g.shouldClose) =>
             /\ pc = "poll" /\ pc' = "poll" /\ nEvents' = nEvents + 1
             /\ lastAction' \in {"PRESS", "REPEAT"}
             /\ \E key \in BoundKeys : g' = Handler(g, key, lastAction')]_vars
    /\ [][(pc \in {"render", "loop_check"} \/ pc' = "render") => g' = g]_vars

\* Three key events were delivered and each changed one variable: the light
\* angle, the shading mode and the projection flag differ from their initial
\* values and nothing else does.
C12_Witness ==
    /\ prog = 2 /\ pc = "poll" /\ nEvents = 3
    /\ g = [Globals(2) EXCEPT !.lightAngle = -1, !.shadingMode = 2, !.perspectiveProj = FALSE]

\* ------------------------------------------------- claims: loop iteration
\* The step that ends an iteration: the loop body reaches the loop test.
EndsIteration == pc = "render" /\ pc' = "loop_check"

\* C13: an iteration starts with the poll, and nothing is drawn before the
\* poll has returned; the rest of the body then draws exactly once, with a
\* vertex count of three times the number of loaded faces, and in program 2
\* with the Gouraud program exactly when the shading mode, as the poll left
\* it, is 1 and with the Phong program otherwise; the shading mode is always
\* 1 or 2.
C13_PollThenOneDraw ==
    /\ [](prog = 2 => g.shadingMode \in {1, 2})
    /\ []((pc \in {"poll", "render"}) => iterDraws = 0)
    /\ [][(pc = "loop_check" /\ pc' # pc) => pc' \in {"poll", "cleanup"}]_vars
    /\ [][(pc' = "render" /\ pc # "render") => (pc = "poll" /\ g' = g)]_vars
    /\ [][(frame' # frame \/ iterDraws' > iterDraws) => EndsIteration]_vars
    /\ [][EndsIteration =>
             /\ iterDraws' = 1
             /\ frame'.count = 3 * Len(faces)
             /\ prog = 2 =>
                   /\ frame'.program \in {"progG", "progP"}
                   /\ frame'.program = "progG" <=> g.shadingMode = 1]_vars

\* Key 2 was delivered in a poll and the iteration's one draw used the Phong
\* program on the six vertices of the mesh's two faces.
C13_Witness ==
    /\ prog = 2 /\ pc = "loop_check" /\ iterDraws = 1 /\ nEvents = 1
    /\ g.shadingMode = 2 /\ frame.program = "progP"
    /\ Len(faces) = 2 /\ frame.count = 6

\* --------------------------------------------------- claims: light flags
\* Program 2 has drawn a frame.
FrameDrawn == prog = 2 /\ frame.program \in {"progG", "progP"}

\* C14 as stated: in every frame of program 2, with either shader program,
\* the value uploaded as each light's inCameraSpace equals that light's
\* flag, and both light positions are supplied in world space.
C14_FlagsForwarded ==
    FrameDrawn =>
        /\ frame.light0InCameraSpace = FlagValue(Light0InCameraSpace)
        /\ frame.light1InCameraSpace = FlagValue(Light1InCameraSpace)
        /\ frame.lightsInWorldSpace

\* C14 amended: the flags are set, false for light0 and true for light1, but
\* in every frame of program 2, with either shader program, the value
\* uploaded as inCameraSpace is 0 for both lights, and both light positions
\* are supplied in world space.
C14_FlagsUploadedAsZero ==
    FrameDrawn =>
        /\ ~Light0InCameraSpace /\ Light1InCameraSpace
        /\ frame.light0InCameraSpace = 0
        /\ frame.light1InCameraSpace = 0
        /\ frame.lightsInWorldSpace

\* After a key event a frame was drawn with the Phong program, and light1,
\* whose flag is true, was uploaded as 0.
C14_Witness ==
    /\ FrameDrawn /\ frame.program = "progP" /\ nEvents = 1 /\ pc = "loop_check"
    /\ drawsAfterClose = 0
    /\ Light1InCameraSpace /\ frame.light1InCameraSpace = 0

\* ------------------------------------------------ claims: closing frame
\* The loop has been left: cleanup is running or main has returned 0.
LoopLeft == pc = "cleanup" \/ (pc = "exit" /\ ret = <<0>>)

\* C15: when a poll leaves the close flag set, the rest of that iteration's
\* body still runs and draws its frame, and the next loop test leaves the
\* loop: a loop test that finds the flag set goes to the cleanup without a
\* draw (so a flag set before the first test means no frame), nothing is
\* drawn after the loop, and once the loop is left the frames drawn with the
\* flag set number exactly one (none if no frame was drawn at all).
C15_OneFrameAfterClose ==
    /\ [](drawsAfterClose \in {0, 1})
    /\ [](LoopLeft => drawsAfterClose = (IF frame = NoFrame THEN 0 ELSE 1))
    /\ [][(pc = "poll" /\ g.shouldClose /\ pc' # pc) => pc' = "render"]_vars
    /\ [][(pc = "render" /\ g.shouldClose /\ pc' # pc) =>
             /\ pc' = "loop_check"
             /\ iterDraws' = 1 /\ drawsAfterClose' = 1
             /\ frame'.program # "none"]_vars
    /\ [][(pc = "loop_check" /\ g.shouldClose /\ pc' # pc) =>
             /\ pc' = "cleanup"
             /\ frame' = frame /\ drawsAfterClose' = drawsAfterClose]_vars
    /\ [][LoopLeft => (frame' = frame /\ drawsAfterClose' = drawsAfterClose)]_vars
    /\ (pc = "poll" /\ g.shouldClose) ~> (pc = "cleanup" /\ drawsAfterClose = 1)

\* The only event, delivered in the first poll, set the close flag; that
\* iteration drew the only frame and the next loop test left the loop.
C15_Witness ==
    /\ pc = "cleanup" /\ nEvents = 1 /\ g.shouldClose
    /\ drawsAfterClose = 1 /\ iterDraws = 0
    /\ frame.program # "none" /\ frame.count = 6
    /\ g = [Globals(prog) EXCEPT !.shouldClose = TRUE]

====
